---- MODULE Spec2Model ----
(***************************************************************************)
(* Model of s3bucket.py: S3UploadEntry, LifecycleRule and S3Bucket.        *)
(*                                                                         *)
(* Month keys are the strings 'YYYY-mm'.  They are modelled as the pair    *)
(* <<YYYY, mm>>; the string comparison of two fixed-width keys is the      *)
(* lexicographic comparison of the pairs (MonthLT), and _substr_months is  *)
(* calendar arithmetic with a year borrow.                                 *)
(* Volumes are whole GB.  Money is fixed-point so that every rate is an    *)
(* integer: storage charges are counted in 1/1000 dollar (rates per GB),   *)
(* request and transition charges in 1/1000000 dollar (the rate per 1000   *)
(* requests, taken per request).  The three kinds are never added up.      *)
(***************************************************************************)
EXTENDS Integers, Sequences, FiniteSets, TLC

VARIABLES data, lifecycle_rules, last, rate_call

vars == <<data, lifecycle_rules, last, rate_call>>

----------------------------------------------------------------------------
(* Bounds of the model *)

MaxUploads == 2
MaxRules == 2
RateWindow == 20

----------------------------------------------------------------------------
(* Price list *)

s3_standard_first_50TB == 23
s3_standard_next_450TB == 22
s3_standard_over_500TB == 21
glacier_storage_rate == 4
s3_standard_1000_PUT_requests == 5
glacier_transition_1000_requests == 50

----------------------------------------------------------------------------
(* Month keys *)

MonthLT(a, b) == a[1] < b[1] \/ (a[1] = b[1] /\ a[2] < b[2])

MonthLE(a, b) == a = b \/ MonthLT(a, b)

substr_months(m1, m2) ==
    LET r == m1[1] * 12 + (m1[2] - 1) - m2
    IN  <<r \div 12, (r % 12) + 1>>

Months == {<<2019, 12>>, <<2020, 1>>, <<2020, 2>>}

NoMonth == <<0, 0>>

RuleKinds == {<<"glacier", 0>>, <<"glacier", 1>>, <<"somethingelse", 0>>}

UploadKinds == {<<600000, 1>>, <<50, 2>>}

----------------------------------------------------------------------------
(* S3UploadEntry *)

S3UploadEntry(avg_obj_size, objects_num) ==
    [number_of_objects |-> objects_num,
     object_size       |-> avg_obj_size,
     storage_class     |-> "s3standard"]

get_total_size(el) == el.number_of_objects * el.object_size

get_num_of_objects(el) == el.number_of_objects

get_storage_class(el) == el.storage_class

(* Variant of move_to_glacier that writes another spelling of the class.   *)
move_to_glacier_typo(el) == [el EXCEPT !.storage_class = "GLACIER"]

move_to_glacier(el) == [el EXCEPT !.storage_class = "glacier"]

LifecycleRule(transition, period) == [transition |-> transition, period |-> period]

----------------------------------------------------------------------------
(* The dict _data: month keys in insertion order, each with its list *)

RECURSIVE SumSeq(_)
SumSeq(s) == IF s = <<>> THEN 0 ELSE Head(s) + SumSeq(Tail(s))

MapSeq(F(_), s) == [i \in 1..Len(s) |-> F(s[i])]

RECURSIVE Chain(_)
Chain(ss) == IF ss = <<>> THEN <<>> ELSE Head(ss) \o Chain(Tail(ss))

Keys(d) == [i \in 1..Len(d) |-> d[i].month]

KeySet(d) == {d[i].month : i \in 1..Len(d)}

IndexOf(d, month) == CHOOSE i \in 1..Len(d) : d[i].month = month

Get(d, month) == d[IndexOf(d, month)].entries

----------------------------------------------------------------------------
(* S3Bucket: updates *)

add_lifecycle_rule(rules, rule) == Append(rules, rule)

(* Variant of upload_data that replaces the list of the month.             *)
upload_data_overwriting(d, month, el) ==
    IF month \in KeySet(d)
    THEN [d EXCEPT ![IndexOf(d, month)].entries = <<el>>]
    ELSE Append(d, [month |-> month, entries |-> <<el>>])

upload_data(d, month, el) ==
    IF month \in KeySet(d)
    THEN [d EXCEPT ![IndexOf(d, month)].entries = Append(@, el)]
    ELSE Append(d, [month |-> month, entries |-> <<el>>])

s3standard_objects(d) ==
    LET filtered == [i \in 1..Len(d) |->
                       [month   |-> d[i].month,
                        entries |-> SelectSeq(d[i].entries,
                                      LAMBDA el : get_storage_class(el) = "s3standard")]]
    IN  SelectSeq(filtered, LAMBDA kv : kv.entries # <<>>)

(* Variants of apply_transition with a seeded fault.                       *)
apply_transition_reverting(d, month, transition) ==
    LET upload_entries == Get(d, month)
    IN  IF transition = "glacier"
        THEN [d EXCEPT ![IndexOf(d, month)].entries = MapSeq(move_to_glacier, upload_entries)]
        ELSE [d EXCEPT ![IndexOf(d, month)].entries =
                 MapSeq(LAMBDA el : [el EXCEPT !.storage_class = "s3standard"], upload_entries)]

apply_transition_first_only(d, month, transition) ==
    LET upload_entries == Get(d, month)
        pending == {j \in 1..Len(upload_entries) :
                       get_storage_class(upload_entries[j]) # transition}
        first == CHOOSE j \in pending : \A k \in pending : j <= k
    IN  IF transition = "glacier" /\ pending # {}
        THEN [d EXCEPT ![IndexOf(d, month)].entries[first] = move_to_glacier(@)]
        ELSE d

(* The filter of apply_transition compares the bound method                *)
(* el.get_storage_class with the string transition: it keeps every entry.  *)
apply_transition(d, month, transition) ==
    LET upload_entries == Get(d, month)
    IN  IF transition = "glacier"
        THEN [d EXCEPT ![IndexOf(d, month)].entries = MapSeq(move_to_glacier, upload_entries)]
        ELSE d

RECURSIVE migrate_keys(_, _, _)
migrate_keys(d, keys_to_migrate, transition) ==
    IF keys_to_migrate = <<>> THEN d
    ELSE migrate_keys(apply_transition(d, Head(keys_to_migrate), transition),
                      Tail(keys_to_migrate), transition)

(* Variant of apply_rule that also migrates the cutoff month itself.       *)
apply_rule_inclusive(d, rule, current_month) ==
    LET oldest_data_to_keep == substr_months(current_month, rule.period)
        keys_to_migrate == SelectSeq(Keys(s3standard_objects(d)),
                                     LAMBDA el : MonthLE(el, oldest_data_to_keep))
    IN  migrate_keys(d, keys_to_migrate, rule.transition)

apply_rule(d, rule, current_month) ==
    LET oldest_data_to_keep == substr_months(current_month, rule.period)
        keys_to_migrate == SelectSeq(Keys(s3standard_objects(d)),
                                     LAMBDA el : MonthLT(el, oldest_data_to_keep))
    IN  migrate_keys(d, keys_to_migrate, rule.transition)

(* Variant of apply_lifecycle_rules that returns after the first rule.     *)
apply_lifecycle_rules_first_rule(d, rules, current_month) ==
    IF rules = <<>> THEN d
    ELSE apply_rule(d, Head(rules), current_month)

RECURSIVE apply_lifecycle_rules(_, _, _)
apply_lifecycle_rules(d, rules, current_month) ==
    IF rules = <<>> THEN d
    ELSE apply_lifecycle_rules(apply_rule(d, Head(rules), current_month),
                               Tail(rules), current_month)

----------------------------------------------------------------------------
(* S3Bucket: accounting *)

(* Variant of get_month_volume that counts the uploads of the month only.  *)
get_month_volume_not_cumulative(d, month, storage_class) ==
    LET months_till_now == SelectSeq(Keys(d), LAMBDA k : k = month)
        all_entries == Chain(MapSeq(LAMBDA k : Get(d, k), months_till_now))
        upload_entries == SelectSeq(all_entries,
                              LAMBDA el : get_storage_class(el) = storage_class)
    IN  SumSeq(MapSeq(get_total_size, upload_entries))

get_month_volume(d, month, storage_class) ==
    LET months_till_now == SelectSeq(Keys(d), LAMBDA k : MonthLE(k, month))
        all_entries == Chain(MapSeq(LAMBDA k : Get(d, k), months_till_now))
        upload_entries == SelectSeq(all_entries,
                              LAMBDA el : get_storage_class(el) = storage_class)
    IN  SumSeq(MapSeq(get_total_size, upload_entries))

(* Variant of get_month_requests that counts s3standard entries only.      *)
get_month_requests_standard_only(d, month) ==
    IF month \in KeySet(d)
    THEN SumSeq(MapSeq(get_num_of_objects,
                       SelectSeq(Get(d, month),
                                 LAMBDA el : get_storage_class(el) = "s3standard")))
    ELSE 0

get_month_requests(d, month) ==
    IF month \in KeySet(d)
    THEN SumSeq(MapSeq(get_num_of_objects, Get(d, month)))
    ELSE 0

RECURSIVE collect_transitions(_, _, _, _)
collect_transitions(d, transitions, month, result) ==
    IF transitions = <<>> THEN result
    ELSE LET t == Head(transitions)
             month_to_migrate == substr_months(month, t.period)
             n == SumSeq(MapSeq(get_num_of_objects, Get(d, month_to_migrate)))
         IN  collect_transitions(d, Tail(transitions), month,
                 [k \in DOMAIN result \cup {t.transition} |->
                     IF k = t.transition THEN n ELSE result[k]])

EmptyDict == [k \in {} |-> 0]

(* Variant of get_month_transitions that reads a missing source month as   *)
(* an empty list instead of leaving the rule out.                          *)
get_month_transitions_default_empty(d, rules, month) ==
    LET padded == [i \in 1..(Len(d) + Len(rules)) |->
                      IF i <= Len(d) THEN d[i]
                      ELSE [month   |-> substr_months(month, rules[i - Len(d)].period),
                            entries |-> <<>>]]
    IN  collect_transitions(padded, rules, month, EmptyDict)

get_month_transitions(d, rules, month) ==
    LET transitions == SelectSeq(rules,
                          LAMBDA r : substr_months(month, r.period) \in KeySet(d))
    IN  collect_transitions(d, transitions, month, EmptyDict)

----------------------------------------------------------------------------
(* Rate model *)

(* Variant of the tier function whose top tier starts at the wrong offset. *)
get_s3_standard_storage_charges_wrong_offset(v) ==
    IF v >= 500000
    THEN 50000 * s3_standard_first_50TB
         + 450000 * s3_standard_next_450TB
         + (v - 50000) * s3_standard_over_500TB
    ELSE IF v >= 50000
    THEN 50000 * s3_standard_first_50TB
         + (v - 50000) * s3_standard_next_450TB
    ELSE IF v >= 0
    THEN v * s3_standard_first_50TB
    ELSE "None"

get_s3_standard_storage_charges(v) ==
    IF v >= 500000
    THEN 50000 * s3_standard_first_50TB
         + 450000 * s3_standard_next_450TB
         + (v - 500000) * s3_standard_over_500TB
    ELSE IF v >= 50000
    THEN 50000 * s3_standard_first_50TB
         + (v - 50000) * s3_standard_next_450TB
    ELSE IF v >= 0
    THEN v * s3_standard_first_50TB
    ELSE "None"

get_glacier_storage_charges(v) == v * glacier_storage_rate

get_request_charges(num) == num * s3_standard_1000_PUT_requests

(* Variant of _get_transition_charges that prices every transition name.   *)
get_transition_charges_any_target(transitions) ==
    LET RECURSIVE Total(_)
        Total(S) == IF S = {} THEN 0
                    ELSE LET k == CHOOSE x \in S : TRUE
                         IN  transitions[k] + Total(S \ {k})
    IN  Total(DOMAIN transitions) * glacier_transition_1000_requests

get_transition_charges(transitions) ==
    IF "glacier" \in DOMAIN transitions
    THEN transitions["glacier"] * glacier_transition_1000_requests
    ELSE 0

----------------------------------------------------------------------------
(* S3Bucket: reporting *)

(* The two volumes of the returned dict are computed by a second call of   *)
(* get_month_volume on the same bucket, which returns the same values.     *)
get_monthly_charges(d, rules, month) ==
    LET s3_standard_volume == get_month_volume(d, month, "s3standard")
        glacier_volume == get_month_volume(d, month, "glacier")
        put_requests == get_month_requests(d, month)
        transitions == get_month_transitions(d, rules, month)
    IN  [s3_standard_storage_charges |-> get_s3_standard_storage_charges(s3_standard_volume),
         s3_glacier_storage_charges  |-> get_glacier_storage_charges(glacier_volume),
         put_request_charges         |-> get_request_charges(put_requests),
         transition_charges          |-> get_transition_charges(transitions),
         s3st_volume                 |-> s3_standard_volume,
         glacier_volume              |-> glacier_volume]

(* generate_report walks the keys in insertion order; each step applies    *)
(* the rules as of that key and then computes that key's entry.            *)
RECURSIVE report_loop(_, _, _, _)
report_loop(d, rules, ms, result) ==
    IF ms = <<>> THEN [data |-> d, result |-> result]
    ELSE LET m == Head(ms)
             d2 == apply_lifecycle_rules(d, rules, m)
             e == get_monthly_charges(d2, rules, m)
         IN  report_loop(d2, rules, Tail(ms),
                 [k \in DOMAIN result \cup {m} |-> IF k = m THEN e ELSE result[k]])

(* Variant of generate_report that reports a fixed calendar of months      *)
(* instead of the months that have uploads.                                *)
generate_report_fixed_calendar(d, rules) ==
    report_loop(d, rules, <<<<2019, 12>>, <<2020, 1>>, <<2020, 2>>>>, EmptyDict)

(* Variant of generate_report that works on a copy of the data and leaves  *)
(* the bucket as it was.                                                   *)
generate_report_on_copy(d, rules) ==
    [data |-> d, result |-> report_loop(d, rules, Keys(d), EmptyDict).result]

generate_report(d, rules) == report_loop(d, rules, Keys(d), EmptyDict)

get_totals(d, rules) ==
    LET gr == generate_report(d, rules)
        report == gr.result
        values == LET RECURSIVE ToSeq(_)
                      ToSeq(S) == IF S = {} THEN <<>>
                                  ELSE LET k == CHOOSE x \in S : TRUE
                                       IN  <<report[k]>> \o ToSeq(S \ {k})
                  IN  ToSeq(DOMAIN report)
    IN  [data |-> gr.data,
         result |->
           [storage_charges     |-> SumSeq(MapSeq(LAMBDA y : y.s3_standard_storage_charges
                                                          + y.s3_glacier_storage_charges, values)),
            put_request_charges |-> SumSeq(MapSeq(LAMBDA y : y.put_request_charges, values)),
            transition_charges  |-> SumSeq(MapSeq(LAMBDA y : y.transition_charges, values))]]

----------------------------------------------------------------------------
(* The state machine: one caller, one call at a time.                      *)
(* last is the call made last: its name, its month argument and what it    *)
(* returned.  A query changes nothing but last; what it returns is         *)
(* recorded for every month (and class) it can be asked about.             *)

NumUploads(d) == SumSeq(MapSeq(LAMBDA kv : Len(kv.entries), d))

Classes == {"s3standard", "glacier"}

Call(op, month, val) == [op |-> op, month |-> month, val |-> val]

Init ==
    /\ data = <<>>
    /\ lifecycle_rules = <<>>
    /\ last = Call("init", NoMonth, 0)
    /\ rate_call = [volume |-> 0, called |-> FALSE, charge |-> 0]

(* Variant of the upload step that applies the rules as of the uploaded    *)
(* month right away.                                                       *)
UploadData_eager ==
    \E month \in Months, k \in UploadKinds :
        /\ NumUploads(data) < MaxUploads
        /\ data' = apply_lifecycle_rules(
                       upload_data(data, month, S3UploadEntry(k[1], k[2])),
                       lifecycle_rules, month)
        /\ last' = Call("upload_data", month, 0)
        /\ UNCHANGED <<lifecycle_rules, rate_call>>

UploadData ==
    \E month \in Months, k \in UploadKinds :
        /\ NumUploads(data) < MaxUploads
        /\ data' = upload_data(data, month, S3UploadEntry(k[1], k[2]))
        /\ last' = Call("upload_data", month, 0)
        /\ UNCHANGED <<lifecycle_rules, rate_call>>

AddLifecycleRule ==
    \E r \in RuleKinds :
        /\ Len(lifecycle_rules) < MaxRules
        /\ lifecycle_rules' = add_lifecycle_rule(lifecycle_rules, LifecycleRule(r[1], r[2]))
        /\ last' = Call("add_lifecycle_rule", NoMonth, 0)
        /\ UNCHANGED <<data, rate_call>>

ApplyLifecycleRules ==
    \E current_month \in Months :
        /\ data' = apply_lifecycle_rules(data, lifecycle_rules, current_month)
        /\ last' = Call("apply_lifecycle_rules", current_month, 0)
        /\ UNCHANGED <<lifecycle_rules, rate_call>>

GenerateReport ==
    LET gr == generate_report(data, lifecycle_rules)
    IN  /\ data' = gr.data
        /\ last' = Call("generate_report", NoMonth, gr.result)
        /\ UNCHANGED <<lifecycle_rules, rate_call>>

GetTotals ==
    LET gt == get_totals(data, lifecycle_rules)
    IN  /\ data' = gt.data
        /\ last' = Call("get_totals", NoMonth, gt.result)
        /\ UNCHANGED <<lifecycle_rules, rate_call>>

GetMonthlyCharges ==
    /\ last' = Call("get_monthly_charges", NoMonth,
                    [m \in Months |-> get_monthly_charges(data, lifecycle_rules, m)])
    /\ UNCHANGED <<data, lifecycle_rules, rate_call>>

GetMonthVolume ==
    /\ last' = Call("get_month_volume", NoMonth,
                    [m \in Months |-> [c \in Classes |-> get_month_volume(data, m, c)]])
    /\ UNCHANGED <<data, lifecycle_rules, rate_call>>

GetMonthRequests ==
    /\ last' = Call("get_month_requests", NoMonth,
                    [m \in Months |-> get_month_requests(data, m)])
    /\ UNCHANGED <<data, lifecycle_rules, rate_call>>

GetMonthTransitions ==
    /\ last' = Call("get_month_transitions", NoMonth,
                    [m \in Months |-> get_month_transitions(data, lifecycle_rules, m)])
    /\ UNCHANGED <<data, lifecycle_rules, rate_call>>

Next ==
    \/ UploadData
    \/ AddLifecycleRule
    \/ ApplyLifecycleRules
    \/ GenerateReport
    \/ GetTotals
    \/ GetMonthlyCharges
    \/ GetMonthVolume
    \/ GetMonthRequests
    \/ GetMonthTransitions

Spec == Init /\ [][Next]_vars

----------------------------------------------------------------------------
(* The rate model on its own: one call of the static method                *)
(* _get_s3_standard_storage_charges on a volume near a tier boundary.      *)

RateVolumes ==
    (0..RateWindow)
    \cup ((50000 - RateWindow)..(50000 + RateWindow))
    \cup ((500000 - RateWindow)..(500000 + RateWindow))
    \cup ((600000 - RateWindow)..(600000 + RateWindow))

InitRate ==
    /\ data = <<>>
    /\ lifecycle_rules = <<>>
    /\ last = Call("init", NoMonth, 0)
    /\ \E v \in RateVolumes : rate_call = [volume |-> v, called |-> FALSE, charge |-> 0]

GetS3StandardStorageCharges ==
    /\ ~rate_call.called
    /\ rate_call' = [rate_call EXCEPT !.called = TRUE,
                                      !.charge = get_s3_standard_storage_charges(rate_call.volume)]
    /\ UNCHANGED <<data, lifecycle_rules, last>>

NextRate == GetS3StandardStorageCharges

SpecRate == InitRate /\ [][NextRate]_vars

----------------------------------------------------------------------------
(* Vocabulary of the properties: records are named by their position in    *)
(* the bucket, <<i, j>> = j-th upload of the i-th month key.               *)

Positions(d) == UNION {{<<i, j>> : j \in 1..Len(d[i].entries)} : i \in 1..Len(d)}

EntryAt(d, pos) == d[pos[1]].entries[pos[2]]

MonthAt(d, pos) == d[pos[1]].month

RECURSIVE TotalSizeOf(_, _)
TotalSizeOf(d, S) ==
    IF S = {} THEN 0
    ELSE LET pos == CHOOSE x \in S : TRUE
         IN  EntryAt(d, pos).number_of_objects * EntryAt(d, pos).object_size
             + TotalSizeOf(d, S \ {pos})

RECURSIVE ObjectCountOf(_, _)
ObjectCountOf(d, S) ==
    IF S = {} THEN 0
    ELSE LET pos == CHOOSE x \in S : TRUE
         IN  EntryAt(d, pos).number_of_objects + ObjectCountOf(d, S \ {pos})

UploadedIn(d, month) == {pos \in Positions(d) : MonthAt(d, pos) = month}

UploadedUpTo(d, month) == {pos \in Positions(d) : MonthLE(MonthAt(d, pos), month)}

InClass(d, cls) == {pos \in Positions(d) : EntryAt(d, pos).storage_class = cls}

GlacierRules(rules) == {i \in 1..Len(rules) : rules[i].transition = "glacier"}

----------------------------------------------------------------------------
(* C1: in the report of generate_report, the entry of a month M counts     *)
(* every record uploaded in month M - p, for a rule (glacier, p), as       *)
(* glacier volume and not as s3standard volume.                            *)
(* The code keeps the records of month M - p in s3standard when it         *)
(* evaluates M (the test is el < oldest_data_to_keep), so this fails.      *)
C1_ReportArchivesSourceMonth ==
    last.op = "generate_report" =>
        \A M \in DOMAIN last.val : \A i \in GlacierRules(lifecycle_rules) :
            LET src == substr_months(M, lifecycle_rules[i].period)
                moved == TotalSizeOf(data, UploadedIn(data, src))
            IN  /\ last.val[M].glacier_volume >= moved
                /\ last.val[M].s3st_volume + moved
                       <= TotalSizeOf(data, UploadedUpTo(data, M))

(* C2: after apply_lifecycle_rules(M), for every rule (glacier, p), every  *)
(* record uploaded in a month <= M - p is in class glacier.                *)
(* Fails on the records uploaded in month M - p itself.                    *)
C2_AppliedUpToCutoff ==
    last.op = "apply_lifecycle_rules" =>
        \A i \in GlacierRules(lifecycle_rules) :
            \A pos \in UploadedUpTo(data, substr_months(last.month, lifecycle_rules[i].period)) :
                EntryAt(data, pos).storage_class = "glacier"

(* C3: a record that is in class glacier stays in class glacier (and at    *)
(* its position) through every call.                                       *)
C3_OneWayTransition ==
    [][\A pos \in InClass(data, "glacier") :
          /\ pos \in Positions(data')
          /\ EntryAt(data', pos).storage_class = "glacier"]_vars

C3_Witness ==
    /\ last.op = "apply_lifecycle_rules"
    /\ InClass(data, "glacier") # {}
    /\ InClass(data, "s3standard") # {}
    /\ \E i \in 1..Len(lifecycle_rules) : lifecycle_rules[i].transition = "somethingelse"

(* C4: a second apply_lifecycle_rules(M) right after a first one with the  *)
(* same M changes nothing in the bucket.                                   *)
C4_ApplyIdempotent ==
    [][(/\ last.op = "apply_lifecycle_rules"
        /\ last'.op = "apply_lifecycle_rules"
        /\ last'.month = last.month) => data' = data]_vars

C4_Witness ==
    /\ last.op = "apply_lifecycle_rules"
    /\ \E pos \in InClass(data, "glacier") :
          /\ MonthLT(MonthAt(data, pos), last.month)
          /\ \E other \in InClass(data, "glacier") : other # pos /\ other[1] = pos[1]
    /\ GlacierRules(lifecycle_rules) # {}

(* C5: for every month M, apply_lifecycle_rules(M) gives every record the  *)
(* same class whatever the order of the rule list.                         *)
Orderings(rules) ==
    LET n == Len(rules)
        perms == {p \in [1..n -> 1..n] : \A a, b \in 1..n : p[a] = p[b] => a = b}
    IN  {[i \in 1..n |-> rules[p[i]]] : p \in perms}

C5_RuleOrderIrrelevant ==
    \A M \in Months : \A reordered \in Orderings(lifecycle_rules) :
        apply_lifecycle_rules(data, reordered, M)
            = apply_lifecycle_rules(data, lifecycle_rules, M)

C5_Witness ==
    /\ last.op = "apply_lifecycle_rules"
    /\ Len(lifecycle_rules) >= 2
    /\ lifecycle_rules[1].transition = "glacier"
    /\ lifecycle_rules[2].transition = "glacier"
    /\ lifecycle_rules[1].period # lifecycle_rules[2].period
    /\ InClass(data, "glacier") # {}
    /\ InClass(data, "s3standard") # {}
    /\ \E M \in Months :
          apply_lifecycle_rules(data, lifecycle_rules, M) # data

(* C6: the report of generate_report on freshly uploaded records is the    *)
(* report of the same bucket with its month keys in ascending order.       *)
(* The loop applies the rules as of each key in insertion order, so a      *)
(* later month uploaded first archives records before the entry of an      *)
(* earlier month is computed: this fails.                                  *)
RECURSIVE SortedByMonth(_)
SortedByMonth(d) ==
    IF d = <<>> THEN <<>>
    ELSE LET i == CHOOSE a \in 1..Len(d) :
                     \A b \in 1..Len(d) : MonthLE(d[a].month, d[b].month)
             rest == [k \in 1..(Len(d) - 1) |-> IF k < i THEN d[k] ELSE d[k + 1]]
         IN  <<d[i]>> \o SortedByMonth(rest)

C6_ReportIgnoresUploadOrder ==
    [][(/\ last'.op = "generate_report"
        /\ InClass(data, "glacier") = {})
       => last'.val = generate_report(SortedByMonth(data), lifecycle_rules).result]_vars

(* C7: get_month_volume(month, class) is the total size of the records of  *)
(* that class uploaded in a month <= month, in every state, and it is      *)
(* what the call returns.                                                  *)
C7_MonthVolumeCumulative ==
    /\ \A m \in Months : \A cls \in Classes :
          get_month_volume(data, m, cls)
              = TotalSizeOf(data, UploadedUpTo(data, m) \cap InClass(data, cls))
    /\ last.op = "get_month_volume" =>
          \A m \in Months : \A cls \in Classes :
              last.val[m][cls]
                  = TotalSizeOf(data, UploadedUpTo(data, m) \cap InClass(data, cls))

C7_Witness ==
    /\ last.op = "get_month_volume"
    /\ \E m1, m2 \in Months :
          /\ MonthLT(m1, m2)
          /\ last.val[m1]["s3standard"] = 100
          /\ last.val[m2]["s3standard"] = 600100
          /\ UploadedIn(data, m1) # {}
          /\ UploadedIn(data, m2) # {}

(* C8: the s3standard storage charge is the three-tier function of the     *)
(* price list, tiers closed on the right (v <= 50000, v <= 500000), for    *)
(* every volume >= 0; it is 0 at 0, 1150 at 50000, 11050 at 500000 and     *)
(* 13150 at 600000 (dollars; the model counts 1/1000 dollar).              *)
TieredCharge(v) ==
    IF v <= 50000 THEN v * 23
    ELSE IF v <= 500000 THEN 50000 * 23 + (v - 50000) * 22
    ELSE 50000 * 23 + 450000 * 22 + (v - 500000) * 21

C8_StandardChargeTiers ==
    rate_call.called =>
        /\ rate_call.charge = TieredCharge(rate_call.volume)
        /\ rate_call.volume = 0 => rate_call.charge = 0
        /\ rate_call.volume = 50000 => rate_call.charge = 1150000
        /\ rate_call.volume = 500000 => rate_call.charge = 11050000
        /\ rate_call.volume = 600000 => rate_call.charge = 13150000

C8_Witness ==
    /\ rate_call.called
    /\ rate_call.volume = 500000
    /\ rate_call.charge = 11050000

(* C9: get_month_requests(month) is the number of objects of the records   *)
(* uploaded in exactly that month, after every call, and an                *)
(* apply_lifecycle_rules or generate_report call changes it for no month.  *)
C9_RequestsExactMonthAndFramed ==
    [][/\ \A m \in Months :
             get_month_requests(data', m) = ObjectCountOf(data', UploadedIn(data', m))
       /\ last'.op = "get_month_requests" =>
             \A m \in Months : last'.val[m] = ObjectCountOf(data', UploadedIn(data', m))
       /\ last'.op \in {"apply_lifecycle_rules", "generate_report"} =>
             \A m \in Months : get_month_requests(data', m) = get_month_requests(data, m)]_vars

C9_Witness ==
    /\ last.op = "get_month_requests"
    /\ \E pos \in InClass(data, "glacier") :
          /\ last.val[MonthAt(data, pos)] = 2
          /\ \E other \in Positions(data) :
                MonthLT(MonthAt(data, other), MonthAt(data, pos))

(* C10: for every rule whose source month (month - period) has uploads,    *)
(* get_month_transitions(month) reports, under the rule's transition, the  *)
(* number of objects of all the records uploaded in the source month.      *)
(* The result is keyed by transition name and each nominating rule         *)
(* overwrites the entry of an earlier rule with the same transition, so    *)
(* this fails for two rules with one target and different periods.         *)
C10_TransitionsCountSourceMonth ==
    \A m \in Months : \A i \in 1..Len(lifecycle_rules) :
        LET src == substr_months(m, lifecycle_rules[i].period)
            reported == get_month_transitions(data, lifecycle_rules, m)
        IN  src \in KeySet(data) =>
               /\ lifecycle_rules[i].transition \in DOMAIN reported
               /\ reported[lifecycle_rules[i].transition]
                      = ObjectCountOf(data, UploadedIn(data, src))

(* The part of C10 that the code keeps: reclassifying records changes the  *)
(* result of get_month_transitions for no month.                           *)
TransitionsIgnoreClasses ==
    [][last'.op \in {"apply_lifecycle_rules", "generate_report", "get_totals"} =>
          \A m \in Months :
              get_month_transitions(data', lifecycle_rules', m)
                  = get_month_transitions(data, lifecycle_rules, m)]_vars

(* C11: a rule whose transition is not glacier is ignored: applying it     *)
(* changes no record, and the objects it nominates add nothing to the      *)
(* transition charge of any month.                                         *)
OnlyGlacier(rules) == SelectSeq(rules, LAMBDA r : r.transition = "glacier")

C11_OtherTargetIgnored ==
    /\ \A i \in 1..Len(lifecycle_rules) : \A M \in Months :
          lifecycle_rules[i].transition # "glacier" =>
              apply_rule(data, lifecycle_rules[i], M) = data
    /\ \A m \in Months :
          get_transition_charges(get_month_transitions(data, lifecycle_rules, m))
              = get_transition_charges(
                    get_month_transitions(data, OnlyGlacier(lifecycle_rules), m))
    /\ (last.op = "get_monthly_charges" /\ OnlyGlacier(lifecycle_rules) = <<>>) =>
          \A m \in Months : last.val[m].transition_charges = 0

C11_Witness ==
    /\ last.op = "get_monthly_charges"
    /\ lifecycle_rules # <<>>
    /\ OnlyGlacier(lifecycle_rules) = <<>>
    /\ \E m \in Months :
          /\ "somethingelse" \in DOMAIN get_month_transitions(data, lifecycle_rules, m)
          /\ get_month_transitions(data, lifecycle_rules, m)["somethingelse"] > 0
          /\ \E pos \in InClass(data, "s3standard") : MonthLT(MonthAt(data, pos), m)

(* C12: a month without uploads has 0 requests and adds nothing to the     *)
(* volume of any class, and get_month_transitions has an entry for a       *)
(* transition only if some rule with that transition has a source month    *)
(* with uploads (no entry, and no lookup of a missing key, otherwise).     *)
C12_MissingDataIsZero ==
    /\ \A m \in Months \ KeySet(data) :
          /\ get_month_requests(data, m) = 0
          /\ \A cls \in Classes :
                get_month_volume(data, m, cls)
                    = TotalSizeOf(data, {pos \in InClass(data, cls) :
                                            MonthLT(MonthAt(data, pos), m)})
    /\ \A m \in Months :
          DOMAIN get_month_transitions(data, lifecycle_rules, m)
              = {lifecycle_rules[i].transition : i \in
                    {j \in 1..Len(lifecycle_rules) :
                        substr_months(m, lifecycle_rules[j].period) \in KeySet(data)}}
    /\ last.op = "get_month_requests" =>
          \A m \in Months \ KeySet(data) : last.val[m] = 0

C12_Witness ==
    /\ last.op = "get_month_transitions"
    /\ data # <<>>
    /\ lifecycle_rules # <<>>
    /\ \E m \in Months : m \notin KeySet(data) /\ last.val[m] # EmptyDict
    /\ \E m \in Months : last.val[m] = EmptyDict

(* C13: on a bucket without uploads generate_report returns the empty      *)
(* dict and get_totals returns three zero charges, with or without rules.  *)
C13_EmptyBucketReport ==
    data = <<>> =>
        /\ generate_report(data, lifecycle_rules).result = EmptyDict
        /\ last.op = "generate_report" => last.val = EmptyDict
        /\ last.op = "get_totals" =>
              last.val = [storage_charges     |-> 0,
                          put_request_charges |-> 0,
                          transition_charges  |-> 0]

C13_Witness ==
    /\ data = <<>>
    /\ last.op = "get_totals"
    /\ Len(lifecycle_rules) = 2
    /\ last.val.storage_charges = 0

(* C14: every month key occurs once; a record keeps its position, its     *)
(* month key, its number of objects and its object size through every      *)
(* call; upload_data(month, record) adds exactly one record, at the end of *)
(* the list of the month given, and no other call adds or removes one.     *)
C14_RecordsStayInTheirMonth ==
    [][/\ \A a, b \in 1..Len(data') : data'[a].month = data'[b].month => a = b
       /\ \A pos \in Positions(data) :
             /\ pos \in Positions(data')
             /\ MonthAt(data', pos) = MonthAt(data, pos)
             /\ EntryAt(data', pos).number_of_objects = EntryAt(data, pos).number_of_objects
             /\ EntryAt(data', pos).object_size = EntryAt(data, pos).object_size
       /\ IF last'.op = "upload_data"
          THEN \E new \in Positions(data') \ Positions(data) :
                  /\ Positions(data') = Positions(data) \cup {new}
                  /\ MonthAt(data', new) = last'.month
                  /\ new[2] = Len(data'[new[1]].entries)
          ELSE Positions(data') = Positions(data)]_vars

C14_Witness ==
    /\ last.op = "upload_data"
    /\ \E i \in 1..Len(data) :
          /\ data[i].month = last.month
          /\ Len(data[i].entries) = 2
          /\ data[i].entries[1].object_size # data[i].entries[2].object_size
          /\ data[i].entries[1].storage_class = "glacier"

(* C15: upload_data and add_lifecycle_rule change the class of no record   *)
(* already in the bucket, and the four queries change neither the data nor *)
(* the rules; classes change only in apply_lifecycle_rules,                *)
(* generate_report and get_totals steps.                                   *)
Queries ==
    {"get_month_volume", "get_month_requests", "get_month_transitions",
     "get_monthly_charges"}

C15_TransitionsAreLazy ==
    [][/\ last'.op \in {"upload_data", "add_lifecycle_rule"} =>
             \A pos \in Positions(data) :
                 EntryAt(data', pos).storage_class = EntryAt(data, pos).storage_class
       /\ last'.op \in Queries =>
             /\ data' = data
             /\ lifecycle_rules' = lifecycle_rules
       /\ (\E pos \in Positions(data) :
               EntryAt(data', pos).storage_class # EntryAt(data, pos).storage_class)
             => last'.op \in {"apply_lifecycle_rules", "generate_report", "get_totals"}]_vars

C15_Witness ==
    /\ last.op = "upload_data"
    /\ lifecycle_rules # <<>>
    /\ apply_lifecycle_rules(data, lifecycle_rules, last.month) # data

(* C16: apply_lifecycle_rules(M) moves to glacier exactly the records of   *)
(* the month keys strictly below M - period for some glacier rule; every   *)
(* other record, the ones of month M - period included, keeps its class.   *)
BelowSomeCutoff(d, rules, M, pos) ==
    \E i \in GlacierRules(rules) :
        MonthLT(MonthAt(d, pos), substr_months(M, rules[i].period))

C16_StrictlyBelowCutoff ==
    [][last'.op = "apply_lifecycle_rules" =>
          /\ Positions(data') = Positions(data)
          /\ \A pos \in Positions(data) :
                EntryAt(data', pos).storage_class
                    = IF BelowSomeCutoff(data, lifecycle_rules, last'.month, pos)
                      THEN "glacier"
                      ELSE EntryAt(data, pos).storage_class]_vars

C16_Witness ==
    /\ last.op = "apply_lifecycle_rules"
    /\ \E i \in GlacierRules(lifecycle_rules) :
          LET cutoff == substr_months(last.month, lifecycle_rules[i].period)
          IN  /\ \E pos \in InClass(data, "s3standard") : MonthAt(data, pos) = cutoff
              /\ \E pos \in InClass(data, "glacier") : MonthLT(MonthAt(data, pos), cutoff)

(* C17: with no upload_data or add_lifecycle_rule in between, two          *)
(* consecutive generate_report calls return the same entries for every     *)
(* month, and two consecutive get_totals calls the same charges.           *)
(* generate_report applies the rules of the later keys after the entries   *)
(* of the earlier keys are computed, so the second call starts from        *)
(* records the first call archived and reports other volumes.              *)
C17_ReportRepeatable ==
    [][/\ (last.op = "generate_report" /\ last'.op = "generate_report")
             => last'.val = last.val
       /\ (last.op = "get_totals" /\ last'.op = "get_totals")
             => last'.val = last.val]_vars

(* C18: for every month m the s3standard volume and the glacier volume of  *)
(* m add up to the total size of all the records uploaded in the months    *)
(* up to m, whatever transitions were applied.                             *)
C18_VolumeConserved ==
    /\ \A m \in Months :
          get_month_volume(data, m, "s3standard") + get_month_volume(data, m, "glacier")
              = TotalSizeOf(data, UploadedUpTo(data, m))
    /\ last.op = "get_month_volume" =>
          \A m \in Months :
              last.val[m]["s3standard"] + last.val[m]["glacier"]
                  = TotalSizeOf(data, UploadedUpTo(data, m))

C18_Witness ==
    /\ last.op = "get_month_volume"
    /\ \E m \in Months :
          /\ last.val[m]["s3standard"] > 0
          /\ last.val[m]["glacier"] > 0

(* C19: when two rules have the same transition and different periods and  *)
(* both source months of a month M have uploads, get_month_transitions(M)  *)
(* reports under that transition the objects of both source months.        *)
(* The code assigns result[t.transition] for each rule in turn, so the     *)
(* entry holds the objects of the last nominating rule only.               *)
C19_EveryNominatingRuleCounted ==
    \A m \in Months : \A i, j \in 1..Len(lifecycle_rules) :
        LET t == lifecycle_rules[i].transition
            src_i == substr_months(m, lifecycle_rules[i].period)
            src_j == substr_months(m, lifecycle_rules[j].period)
            reported == get_month_transitions(data, lifecycle_rules, m)
        IN  (/\ lifecycle_rules[j].transition = t
             /\ lifecycle_rules[i].period # lifecycle_rules[j].period
             /\ src_i \in KeySet(data)
             /\ src_j \in KeySet(data))
            => /\ t \in DOMAIN reported
               /\ reported[t] = ObjectCountOf(data, UploadedIn(data, src_i))
                                  + ObjectCountOf(data, UploadedIn(data, src_j))

(* C20: after a generate_report every record below the cutoff of some      *)
(* glacier rule as of some month key is in glacier, so that a second       *)
(* generate_report right after the first changes the class of no record.   *)
C20_ReportReachesFixpoint ==
    [][last'.op = "generate_report" =>
          /\ \A m \in KeySet(data') : \A pos \in Positions(data') :
                BelowSomeCutoff(data', lifecycle_rules', m, pos)
                    => EntryAt(data', pos).storage_class = "glacier"
          /\ last.op = "generate_report" => data' = data]_vars

C20_Witness ==
    /\ last.op = "generate_report"
    /\ InClass(data, "s3standard") # {}
    /\ \E m \in KeySet(data) : \E pos \in InClass(data, "glacier") :
          BelowSomeCutoff(data, lifecycle_rules, m, pos)
    /\ generate_report(data, lifecycle_rules).data = data

====
